---------------------------- MODULE Spec2Model ----------------------------
(***************************************************************************)
(* Model of mir-dump's Polonius post-processing for one function:          *)
(*   - add_fake_facts (src/src/polonius_info.rs): completion of the        *)
(*     loan-creation relation borrow_region from the outlives relation;    *)
(*   - PoloniusInfo::find_variable: reverse lookup region -> local;        *)
(*   - InfoPrinter::visit_fn and MirInfoPrinter::print_info                *)
(*     (src/src/mir_dumper.rs): the graph file and the walk that writes    *)
(*     one table per block, one row per statement and terminator, and the  *)
(*     edges of each terminator.                                           *)
(*                                                                         *)
(* Option<T> is a sequence of length <= 1: <<>> is None, <<x>> is Some(x). *)
(* Vec<T> is a sequence.  HashMap<K, V> is a function; the order in which  *)
(* a HashMap is iterated is arbitrary and is an explicit parameter (a      *)
(* sequence of its keys) chosen nondeterministically by the caller.        *)
(***************************************************************************)
EXTENDS Integers, Sequences, FiniteSets, TLC

VARIABLES
    mir,               \* the function's MIR: [basic_blocks, local_decls]
    interner,          \* facts::Interner: Seq of Point, PointIndex = position
    borrow_region,     \* all_facts.borrow_region: Seq of <<region, loan, point>>
    outlives,          \* all_facts.outlives: Seq of <<region1, region2, point>>
    region_live_at,    \* all_facts.region_live_at: Seq of <<region, point>>
    universal_region,  \* all_facts.universal_region (as a set of regions)
    variable_regions,  \* HashMap<mir::Local, facts::Region>
    call_magic_wands,  \* HashMap<facts::Loan, mir::Local>
    reference_moves,   \* first component returned by the last add_fake_facts
    argument_moves,    \* second component returned by the last add_fake_facts
    before,            \* the facts as they were when the last add_fake_facts began
    runs,              \* number of add_fake_facts calls made
    graph,             \* what print_info has written into the BufWriter
    borrow_live_at,    \* borrowck_out_facts.borrow_live_at: point -> Vec<Loan>
    graph_file,        \* Option: what the file at graph_path holds, if it exists;
                       \* what the BufWriter still buffers is not in it
    error,             \* how the function's dump failed, "none" while it has not
    pc                 \* "start" | "created" | "loaded" | "completed" |
                       \* "solved" | "done" | "panicked"

vars == <<mir, interner, borrow_region, outlives, region_live_at,
          universal_region, variable_regions, call_magic_wands,
          reference_moves, argument_moves, before, runs, graph,
          borrow_live_at, graph_file, error, pc>>

---------------------------------------------------------------------------
\* Bounds of the model.

\* Regions are 1..NumRegions.
NumRegions == 2
\* Longest outlives relation drawn.
MaxOutlives == 2
\* Longest input borrow_region relation drawn; its loan ids are 0..MaxBorrows.
MaxBorrows == 1
\* Number of add_fake_facts calls made on one fact set.
MaxRuns == 2

Regions == 1..NumRegions
LoanIds == 0..MaxBorrows

---------------------------------------------------------------------------
\* Generic helpers.

Range(s) == {s[i] : i \in 1..Len(s)}

\* The loan ids of a loan-creation relation.
LoanIdsIn(facts) == {facts[i][2] : i \in 1..Len(facts)}

\* All sequences over S of length at most n.
SeqsUpTo(S, n) == UNION {[1..k -> S] : k \in 0..n}

\* All orders (duplicate-free enumerations) of the finite set S.
Orders(S) == {o \in [1..Cardinality(S) -> S] : Range(o) = S}

\* All rearrangements of the sequence s.
Rearrangements(s) ==
    {[i \in 1..Len(s) |-> s[p[i]]] : p \in Orders(1..Len(s))}

---------------------------------------------------------------------------
\* The CFG (rustc::mir::Mir) as far as the program reads it.

\* mir::Location.
Location(bb, index) == [block |-> bb, statement_index |-> index]

\* facts::Point: a location and a facts::PointType.
Point(location, typ) == [location |-> location, typ |-> typ]

PointTypes == <<"Start", "Mid">>

\* mir[bb]: blocks are numbered from 0.
BlockData(m, bb) == m.basic_blocks[bb + 1]

\* statements[i]: statements are numbered from 0.
StatementAt(m, location) ==
    BlockData(m, location.block).statements[location.statement_index + 1]

\* Concatenation of a sequence of sequences.
RECURSIVE Flatten(_)
Flatten(ss) == IF ss = <<>> THEN <<>> ELSE Head(ss) \o Flatten(Tail(ss))

\* The points of block bb in CFG order: per statement and then for the
\* terminator, Start and then Mid.
BlockPoints(m, bb) ==
    Flatten([i \in 1..(Len(BlockData(m, bb).statements) + 1) |->
                [t \in 1..2 |-> Point(Location(bb, i - 1), PointTypes[t])]])

\* The interner after the fact files were read: every point of the CFG has
\* an index (cfg_edge names them all).
InternAllPoints(m) ==
    Flatten([b \in 1..Len(m.basic_blocks) |-> BlockPoints(m, b - 1)])

\* Interner::get_point: the point of an index that was issued.
GetPoint(intern, index) == intern[index]

\* Interner::get_point_index: Some(index) of an interned point, None for a
\* point never interned (the caller's unwrap is then fatal).
GetPointIndex(intern, point) ==
    IF \E i \in 1..Len(intern) : intern[i] = point
    THEN <<CHOOSE i \in 1..Len(intern) : intern[i] = point>>
    ELSE <<>>

\* Variant: every statement counts as an assignment.
EveryStatementAssigns(m, location) ==
    Len(BlockData(m, location.block).statements) # location.statement_index
\* Check if the statement is assignment.
is_assignment(m, location) ==
    LET statements == BlockData(m, location.block).statements
    IN  IF Len(statements) = location.statement_index
        THEN FALSE
        ELSE StatementAt(m, location).kind = "Assign"

is_call(m, location) ==
    LET block == BlockData(m, location.block)
    IN  IF Len(block.statements) # location.statement_index
        THEN FALSE
        ELSE block.terminator[1].kind = "Call"

\* Extract the destination place of the call terminator at the location:
\* [panic, place] with place an Option.  A terminator that is no call panics.
get_call_destination(m, location) ==
    LET block == BlockData(m, location.block)
    IN  IF Len(block.statements) # location.statement_index
        THEN [panic |-> FALSE, place |-> <<>>]
        ELSE IF block.terminator[1].kind = "Call"
        THEN IF block.terminator[1].destination # <<>>
             THEN [panic |-> FALSE,
                   place |-> <<block.terminator[1].destination[1].place>>]
             ELSE [panic |-> FALSE, place |-> <<>>]
        ELSE [panic |-> TRUE, place |-> <<>>]

---------------------------------------------------------------------------
\* add_fake_facts.

\* Variant: the last loan index is found and not stepped past.
SeedReusesLastLoan(facts) ==
    LET ids == {facts[i][2] : i \in 1..Len(facts)} \cup {0}
    IN  CHOOSE id \in ids : \A other \in ids : other <= id
\* Find the last loan index, and step past it.
SeedLoanId(facts) ==
    LET ids == {facts[i][2] : i \in 1..Len(facts)} \cup {0}
    IN  (CHOOSE id \in ids : \A other \in ids : other <= id) + 1

\* Variant: only the first region is looked up in universal_region.
ChecksFirstRegionOnly(universal, tuple) == tuple[1] \notin universal
\* Whether an outlives tuple enters the map from points to region pairs.
NeitherUniversal(universal, tuple) ==
    tuple[1] \notin universal /\ tuple[2] \notin universal

\* The map from points to (region1, region2) vectors: each vector holds the
\* point's kept pairs in the order of the outlives relation.
RECURSIVE PairsAt(_, _, _)
PairsAt(outl, universal, point) ==
    IF outl = <<>> THEN <<>>
    ELSE LET rest == PairsAt(Tail(outl), universal, point)
             tuple == Head(outl)
         IN  IF tuple[3] = point /\ NeitherUniversal(universal, tuple)
             THEN <<<<tuple[1], tuple[2]>>>> \o rest
             ELSE rest

OutlivesAtPoint(outl, universal) ==
    LET keys == {outl[i][3] : i \in {j \in 1..Len(outl) :
                                        NeitherUniversal(universal, outl[j])}}
    IN  [point \in keys |-> PairsAt(outl, universal, point)]

\* Variant: the guard is dropped.
IgnoresExistingLoans(facts, point) == TRUE
\* Variant: the guard asks for a relation without any fact.
NoLoanAnywhere(facts, point) == facts = <<>>
\* Variant: the guard looks at the first fact only.
ChecksFirstLoanOnly(facts, point) == facts = <<>> \/ facts[1][3] # point
\* borrow_region.iter().all(|(_, _, loan_point)| loan_point != point)
NoLoanAt(facts, point) == \A i \in 1..Len(facts) : facts[i][3] # point

\* Variant: the fact replaces the last one.
PushOverwritesLast(facts, fact) ==
    IF facts = <<>> THEN <<fact>> ELSE [facts EXCEPT ![Len(facts)] = fact]
\* borrow_region.push(fact)
Push(facts, fact) == Append(facts, fact)

\* The state add_fake_facts works on: the relation it extends, its counter,
\* the map and the two vectors it fills, and whether it has panicked.
Work(facts, wands) ==
    [borrow_region |-> facts, last_loan_id |-> SeedLoanId(facts),
     call_magic_wands |-> wands, reference_moves |-> <<>>,
     argument_moves |-> <<>>, panicked |-> FALSE]

\* The loan for the call's destination place, when it has one.
AddCallDestination(w, place, point, var_regions) ==
    IF place = <<>> THEN w
    ELSE IF place[1].kind # "Local" THEN [w EXCEPT !.panicked = TRUE]
    ELSE IF place[1].local \notin DOMAIN var_regions THEN w
    ELSE [w EXCEPT
            !.borrow_region =
                Push(@, <<var_regions[place[1].local], w.last_loan_id, point>>),
            !.last_loan_id = @ + 1,
            !.call_magic_wands =
                (w.last_loan_id :> place[1].local) @@ w.call_magic_wands]

\* Variant: the argument loans are for the pairs' second regions.
RECURSIVE ArgumentsOfSecondRegion(_, _, _)
ArgumentsOfSecondRegion(w, regions, point) ==
    IF regions = <<>> THEN w
    ELSE ArgumentsOfSecondRegion(
            [w EXCEPT
                !.borrow_region = Push(@, <<Head(regions)[2], w.last_loan_id, point>>),
                !.argument_moves = Append(@, w.last_loan_id),
                !.last_loan_id = @ + 1],
            Tail(regions), point)
\* One loan per pair of the point, for the pair's first region.
RECURSIVE AddCallArguments(_, _, _)
AddCallArguments(w, regions, point) ==
    IF regions = <<>> THEN w
    ELSE AddCallArguments(
            [w EXCEPT
                !.borrow_region = Push(@, <<Head(regions)[1], w.last_loan_id, point>>),
                !.argument_moves = Append(@, w.last_loan_id),
                !.last_loan_id = @ + 1],
            Tail(regions), point)

\* Variant: the counter is stepped by two.
MoveSkipsAnId(w, regions, point) ==
    [w EXCEPT
        !.borrow_region = Push(@, <<regions[Len(regions)][2], w.last_loan_id, point>>),
        !.reference_moves = Append(@, w.last_loan_id),
        !.last_loan_id = @ + 2]
\* regions.pop().unwrap(): the pair pushed last; one loan for its second region.
AddReferenceMove(w, regions, point) ==
    [w EXCEPT
        !.borrow_region = Push(@, <<regions[Len(regions)][2], w.last_loan_id, point>>),
        !.reference_moves = Append(@, w.last_loan_id),
        !.last_loan_id = @ + 1]

\* The body of the loop over outlives_at_point, for one entry.
ProcessPoint(w, m, intern, var_regions, point, regions) ==
    IF ~NoLoanAt(w.borrow_region, point) THEN w
    ELSE LET location == GetPoint(intern, point).location
         IN  IF is_call(m, location)
             THEN LET dest == get_call_destination(m, location)
                      w1   == IF dest.panic THEN [w EXCEPT !.panicked = TRUE]
                              ELSE AddCallDestination(w, dest.place, point, var_regions)
                  IN  IF w1.panicked THEN w1
                      ELSE AddCallArguments(w1, regions, point)
             ELSE IF is_assignment(m, location)
             THEN AddReferenceMove(w, regions, point)
             ELSE w

\* The loop over outlives_at_point, its entries visited in the given order;
\* a panic ends it.
RECURSIVE ProcessPoints(_, _, _, _, _, _)
ProcessPoints(w, m, intern, var_regions, map, order) ==
    IF order = <<>> \/ w.panicked THEN w
    ELSE ProcessPoints(
            ProcessPoint(w, m, intern, var_regions, Head(order), map[Head(order)]),
            m, intern, var_regions, map, Tail(order))

\* add_fake_facts on the given relations, with the order in which the
\* HashMap outlives_at_point happens to be iterated.
add_fake_facts(facts, outl, universal, intern, m, var_regions, wands, order) ==
    ProcessPoints(Work(facts, wands), m, intern, var_regions,
                  OutlivesAtPoint(outl, universal), order)

---------------------------------------------------------------------------
\* PoloniusInfo::find_variable and MirInfoPrinter.

\* Find a variable that has the given region in its type: the loop over
\* variable_regions in the given iteration order, `local` being the match
\* found so far.  [panic, local]: the assertion failed, or the Option found.
RECURSIVE FindVariableLoop(_, _, _, _)
FindVariableLoop(var_regions, region, order, local) ==
    IF order = <<>> THEN [panic |-> FALSE, local |-> local]
    ELSE IF var_regions[Head(order)] = region
    THEN IF local # <<>>
         THEN [panic |-> TRUE, local |-> local]
         ELSE FindVariableLoop(var_regions, region, Tail(order), <<Head(order)>>)
    ELSE FindVariableLoop(var_regions, region, Tail(order), local)

\* Variant: no assertion; the first match is returned.
FirstMatchWins(var_regions, region, order) ==
    LET matches == SelectSeq(order, LAMBDA key : var_regions[key] = region)
    IN  [panic |-> FALSE,
         local |-> IF matches = <<>> THEN <<>> ELSE <<matches[1]>>]
\* find_variable with the map iterated in the given order.
find_variable(var_regions, region, order) ==
    FindVariableLoop(var_regions, region, order, <<>>)

\* The decimal digits of a number, as character codes.
RECURSIVE Digits(_)
Digits(n) ==
    IF n < 10 THEN <<48 + n>> ELSE Digits(n \div 10) \o <<48 + (n % 10)>>

\* format!("{:?}") of a loan ("L7"), of a region ("R7"), of a local ("_7"),
\* of an Option<Local> ("None", "Some(_7)") and of a pair ("(a, b)"), as
\* character codes; to_html! replaces no character of these texts.
LoanText(loan) == <<76>> \o Digits(loan)
RegionText(region) == <<82>> \o Digits(region)
LocalText(local) == <<95>> \o Digits(local)
OptionText(local) ==
    IF local = <<>> THEN <<78, 111, 110, 101>>
    ELSE <<83, 111, 109, 101, 40>> \o LocalText(local[1]) \o <<41>>
PairText(first, second) == <<40>> \o first \o <<44, 32>> \o second \o <<41>>

\* The order of String: byte by byte, a proper prefix first.
RECURSIVE TextBefore(_, _)
TextBefore(a, b) ==
    IF b = <<>> THEN FALSE
    ELSE IF a = <<>> THEN TRUE
    ELSE IF a[1] # b[1] THEN a[1] < b[1]
    ELSE TextBefore(Tail(a), Tail(b))

\* to_sorted_string!: the texts of the elements, sorted as texts and joined:
\* the orders of the texts of two loans, of two (region, loan), of two
\* Option<Local> and of two (region, Option<Local>).
LoanBefore(a, b) == TextBefore(LoanText(a), LoanText(b))
BorrowRegionBefore(a, b) ==
    TextBefore(PairText(RegionText(a[1]), LoanText(a[2])),
               PairText(RegionText(b[1]), LoanText(b[2])))
LocalBefore(a, b) == TextBefore(OptionText(a), OptionText(b))
RegionBefore(a, b) ==
    TextBefore(PairText(RegionText(a[1]), OptionText(a[2])),
               PairText(RegionText(b[1]), OptionText(b[2])))

\* `elements` names what the vector holds.
to_sorted_string(vector, elements) ==
    SortSeq(vector, LAMBDA a, b :
        CASE elements = "loans" -> LoanBefore(a, b)
          [] elements = "borrow_regions" -> BorrowRegionBefore(a, b)
          [] elements = "regions" -> RegionBefore(a, b))

\* Variant: a point without an entry in borrow_live_at is fatal.
EntryRequired(output, point) ==
    IF point \in DOMAIN output
    THEN [panic |-> FALSE, cell |-> to_sorted_string(output[point], "loans")]
    ELSE [panic |-> TRUE, cell |-> <<>>]
\* The Loans cell of a point: the loans of borrow_live_at.get(&point), an
\* empty cell when the map has no entry for the point.
LoansCell(output, point) ==
    IF point \in DOMAIN output
    THEN [panic |-> FALSE, cell |-> to_sorted_string(output[point], "loans")]
    ELSE [panic |-> FALSE, cell |-> <<>>]

\* Print the cell with loans at the Mid point of the location; [panic, cell].
write_mid_point_blas(intern, output, location) ==
    LET mid_point == GetPointIndex(intern, Point(location, "Mid"))
    IN  IF mid_point = <<>> THEN [panic |-> TRUE, cell |-> <<>>]
        ELSE LoansCell(output, mid_point[1])

\* Variant: the Start cell shows the facts of the Mid point as well.
BorrowRegionsFromStart(facts, point) ==
    LET at == SelectSeq(facts, LAMBDA fact : fact[3] \in {point, point + 1})
    IN  to_sorted_string([i \in 1..Len(at) |-> <<at[i][1], at[i][2]>>],
                         "borrow_regions")
\* The (region, loan) of the loan-creation facts at a point.
BorrowRegionsAt(facts, point) ==
    LET at == SelectSeq(facts, LAMBDA fact : fact[3] = point)
    IN  to_sorted_string([i \in 1..Len(at) |-> <<at[i][1], at[i][2]>>],
                         "borrow_regions")

\* The regions alive at a point, each with find_variable's answer;
\* [panic, cell].
RegionsAt(live, var_regions, point, order) ==
    LET at == SelectSeq(live, LAMBDA tuple : tuple[2] = point)
        found == [i \in 1..Len(at) |-> find_variable(var_regions, at[i][1], order)]
    IN  [panic |-> \E i \in 1..Len(at) : found[i].panic,
         cell |-> to_sorted_string([i \in 1..Len(at) |-> <<at[i][1], found[i].local>>],
                                   "regions")]

\* What is left of a row whose writing panicked: <tr> and its first cells.
Fragment(location) == [item |-> "fragment", location |-> location]

\* visit_statement: the row of one statement; [panic, items].  A point that
\* was never interned, or a failed find_variable assertion, is a panic.
visit_statement(m, intern, facts, live, output, var_regions, location, order) ==
    LET start_point == GetPointIndex(intern, Point(location, "Start"))
        mid_point == GetPointIndex(intern, Point(location, "Mid"))
    IN  IF start_point = <<>> \/ mid_point = <<>>
        THEN [panic |-> TRUE, items |-> <<Fragment(location)>>]
        ELSE LET loans_start == LoansCell(output, start_point[1])
                 loans_mid == write_mid_point_blas(intern, output, location)
                 regions_start == RegionsAt(live, var_regions, start_point[1], order)
                 regions_mid == RegionsAt(live, var_regions, mid_point[1], order)
             IN  IF \/ loans_start.panic \/ loans_mid.panic
                    \/ regions_start.panic \/ regions_mid.panic
                 THEN [panic |-> TRUE, items |-> <<Fragment(location)>>]
                 ELSE [panic |-> FALSE,
                       items |-> <<[item |-> "row",
                                    location |-> location,
                                    kind |-> "statement",
                                    loans_start |-> loans_start.cell,
                                    loans_mid |-> loans_mid.cell,
                                    borrow_regions_start |->
                                        BorrowRegionsAt(facts, start_point[1]),
                                    borrow_regions_mid |->
                                        BorrowRegionsAt(facts, mid_point[1]),
                                    regions_start |-> regions_start.cell,
                                    regions_mid |-> regions_mid.cell]>>]

\* The row visit_basic_block writes for the terminator: an empty cell, the
\* loans at the Mid point, and one empty cell over the four columns of the
\* borrow regions and the regions.
TerminatorRow(intern, output, location) ==
    LET loans_mid == write_mid_point_blas(intern, output, location)
    IN  IF loans_mid.panic
        THEN [panic |-> TRUE, items |-> <<Fragment(location)>>]
        ELSE [panic |-> FALSE,
              items |-> <<[item |-> "row",
                           location |-> location,
                           kind |-> "terminator",
                           loans_start |-> <<>>,
                           loans_mid |-> loans_mid.cell,
                           borrow_regions_start |-> <<>>,
                           borrow_regions_mid |-> <<>>,
                           regions_start |-> <<>>,
                           regions_mid |-> <<>>]>>]

\* A node of the graph: a block's table, or the node an edge to `resume`,
\* `abort` or `return` names.
BlockNode(bb) == <<"bb", bb>>
StrNode(target) == <<target>>

\* write_edge!: plain, `unwind` ([color=red]) or `imaginary`
\* ([style="dashed"]).
Edge(source, target, style) ==
    [item |-> "edge", source |-> source, target |-> target, style |-> style]

\* One edge of the style to each of the targets, in their order.
EdgesTo(bb, targets, style) ==
    [i \in 1..Len(targets) |-> Edge(bb, BlockNode(targets[i]), style)]

\* TerminatorKind::FalseUnwind { real_target, unwind }
FalseUnwindEdges(bb, terminator) ==
    EdgesTo(bb, terminator.targets, "plain")
        \o EdgesTo(bb, terminator.unwind, "imaginary")

\* TerminatorKind::SwitchInt { targets }
SwitchIntEdges(bb, terminator) == EdgesTo(bb, terminator.targets, "plain")

\* visit_terminator: the edges of the block's terminator; [panic, items].
visit_terminator(bb, terminator) ==
    LET kind == terminator.kind
        written(edges) == [panic |-> FALSE, items |-> edges]
    IN  CASE kind = "Goto" ->
                written(EdgesTo(bb, terminator.targets, "plain"))
          [] kind = "SwitchInt" ->
                written(SwitchIntEdges(bb, terminator))
          [] kind = "Resume" ->
                written(<<Edge(bb, StrNode("resume"), "plain")>>)
          [] kind = "Abort" ->
                written(<<Edge(bb, StrNode("abort"), "plain")>>)
          [] kind = "Return" ->
                written(<<Edge(bb, StrNode("return"), "plain")>>)
          [] kind = "Unreachable" ->
                written(<<>>)
          [] kind \in {"DropAndReplace", "Drop"} ->
                written(EdgesTo(bb, terminator.targets, "plain")
                            \o EdgesTo(bb, terminator.unwind, "unwind"))
          [] kind = "Call" ->
                written(EdgesTo(bb, [i \in 1..Len(terminator.destination) |->
                                        terminator.destination[i].target], "plain")
                            \o EdgesTo(bb, terminator.cleanup, "unwind"))
          [] kind = "Assert" ->
                written(EdgesTo(bb, terminator.targets, "plain")
                            \o EdgesTo(bb, terminator.cleanup, "unwind"))
          [] kind \in {"Yield", "GeneratorDrop"} ->
                [panic |-> TRUE, items |-> <<>>]
          [] kind = "FalseEdges" ->
                written(EdgesTo(bb, terminator.targets, "plain")
                            \o EdgesTo(bb, terminator.imaginary_targets, "imaginary"))
          [] kind = "FalseUnwind" ->
                written(FalseUnwindEdges(bb, terminator))

\* Variant: what comes later in the code is written first.
RestFirst(first, rest) ==
    [panic |-> first.panic \/ rest.panic, items |-> rest.items \o first.items]
\* Items written one after the other; a panic ends the writing.
Then(first, rest) ==
    IF first.panic THEN first
    ELSE [panic |-> rest.panic, items |-> first.items \o rest.items]

\* The while loop of visit_basic_block from statement `index` on.
RECURSIVE VisitFrom(_, _, _, _, _, _, _, _, _)
VisitFrom(m, intern, facts, live, output, var_regions, bb, index, order) ==
    IF index < Len(BlockData(m, bb).statements)
    THEN Then(visit_statement(m, intern, facts, live, output, var_regions,
                              Location(bb, index), order),
              VisitFrom(m, intern, facts, live, output, var_regions,
                        bb, index + 1, order))
    ELSE [panic |-> FALSE, items |-> <<>>]

\* visit_basic_block: the head of the block's table, the rows of its
\* statements, the row of its terminator, the end of the table, and then
\* the terminator's edges.
visit_basic_block(m, intern, facts, live, output, var_regions, bb, order) ==
    LET terminator_index == Len(BlockData(m, bb).statements)
        terminator == BlockData(m, bb).terminator
        edges == IF terminator = <<>> THEN [panic |-> FALSE, items |-> <<>>]
                 ELSE visit_terminator(bb, terminator[1])
    IN  Then([panic |-> FALSE, items |-> <<[item |-> "node", block |-> bb]>>],
        Then(VisitFrom(m, intern, facts, live, output, var_regions, bb, 0, order),
        Then(TerminatorRow(intern, output, Location(bb, terminator_index)),
        Then([panic |-> FALSE, items |-> <<[item |-> "end_node", block |-> bb]>>],
             edges))))

\* The loop of print_info over the blocks from `bb` on, in the order of
\* their indices.
RECURSIVE PrintFrom(_, _, _, _, _, _, _, _)
PrintFrom(m, intern, facts, live, output, var_regions, bb, order) ==
    IF bb >= Len(m.basic_blocks) THEN [panic |-> FALSE, items |-> <<>>]
    ELSE Then(visit_basic_block(m, intern, facts, live, output, var_regions,
                                bb, order),
              PrintFrom(m, intern, facts, live, output, var_regions,
                        bb + 1, order))

\* configuration::dump_show_temp_variables(): its default.
dump_show_temp_variables == TRUE

\* print_temp_variables: the table of the locals, each with the region
\* variable_regions gives it.
print_temp_variables(m, var_regions) ==
    IF dump_show_temp_variables
    THEN [panic |-> FALSE,
          items |-> <<[item |-> "variables",
                       regions |-> [temp \in m.local_decls |->
                                        IF temp \in DOMAIN var_regions
                                        THEN <<var_regions[temp]>> ELSE <<>>]]>>]
    ELSE [panic |-> FALSE, items |-> <<>>]

\* print_info on a writer that never fails: what it writes, and whether it
\* panicked; [panic, items].
print_info(m, intern, facts, live, output, var_regions, order) ==
    Then([panic |-> FALSE, items |-> <<[item |-> "digraph"]>>],
    Then(PrintFrom(m, intern, facts, live, output, var_regions, 0, order),
    Then(print_temp_variables(m, var_regions),
         [panic |-> FALSE, items |-> <<[item |-> "close"]>>])))

\* A piece of an item: its beginning, without its end.
Cut == [item |-> "cut"]

\* The first n elements of a sequence, all of them when it has fewer.
Take(seq, n) == SubSeq(seq, 1, IF n < Len(seq) THEN n ELSE Len(seq))

\* What a file of the capacity holds once the whole `items`, and after them
\* a beginning of length `piece` of one more item (0: none), were written
\* to it.  A file without limit (None) holds all of it; a file of capacity
\* (taken, cut) holds the first `taken` items and, of the item after them,
\* a beginning of length `cut` at most.  Lengths are in a unit in which
\* every item is longer than the pieces drawn.
FileAfter(items, piece, capacity) ==
    LET beginning ==
            IF capacity = <<>> THEN piece
            ELSE IF Len(items) > capacity[1] THEN capacity[2]
            ELSE IF Len(items) < capacity[1] THEN piece
            ELSE IF piece < capacity[2] THEN piece ELSE capacity[2]
        whole == IF capacity = <<>> THEN items ELSE Take(items, capacity[1])
    IN  whole \o (IF beginning > 0 THEN <<Cut>> ELSE <<>>)

\* write_graph! on the BufWriter<File>, and the drop of the writer.  An
\* item is several writes into the buffer; a write error of the file is
\* seen by print_info only when, while it is writing, the buffer is written
\* to the file (to make room for the next write, which may be in the middle
\* of an item).  `flush` is None when print_info meets no write to the file
\* that carries more than the file takes; otherwise it is (count, piece):
\* the buffer is written to the file when `count` items and a beginning of
\* length `piece` of the next are in it.  A flush that carries more than
\* the file takes ends print_info with Err(io::Error), the items after it
\* unwritten.  The writer is dropped when visit_fn ends or unwinds: the
\* drop writes what is buffered and ignores the error of the file.
\* [error, graph, file]: how print_info ends (Err "io", "panic", or Ok
\* "none"), what it wrote, and what the file holds.
write_graph(printed, capacity, flush) ==
    LET refused == /\ capacity # <<>>
                   /\ flush # <<>>
                   /\ flush[1] < Len(printed.items)
                   /\ \/ flush[1] > capacity[1]
                      \/ flush[1] = capacity[1] /\ flush[2] > capacity[2]
        whole == IF refused THEN Take(printed.items, flush[1])
                 ELSE printed.items
        piece == IF refused THEN flush[2] ELSE 0
    IN  [error |-> IF refused THEN "io"
                   ELSE IF printed.panic THEN "panic" ELSE "none",
         graph |-> whole \o (IF piece > 0 THEN <<Cut>> ELSE <<>>),
         file |-> FileAfter(whole, piece, capacity)]

\* The rows among the items.
RowsOf(items) == SelectSeq(items, LAMBDA written : written.item = "row")

\* The rows print_info has written.
rows == RowsOf(graph)

---------------------------------------------------------------------------
\* Inputs.

StatementKinds == {"Assign", "StorageDead"}

\* A terminator as far as the program reads it: its kind, the destination
\* of a Call, the ordinary targets (target, real_target or targets), and the
\* unwind, cleanup and imaginary targets.
Terminator(kind, destination, targets, unwind, cleanup, imaginary_targets) ==
    [kind |-> kind, destination |-> destination, targets |-> targets,
     unwind |-> unwind, cleanup |-> cleanup,
     imaginary_targets |-> imaginary_targets]

\* Call destinations: none, a local, or a place that is no local.
Places == {[kind |-> "Local", local |-> 1], [kind |-> "Projection", local |-> 1]}
Destinations == {<<>>} \cup {<<[place |-> p, target |-> 0]>> : p \in Places}

Terminators ==
    {Terminator("Call", d, <<>>, <<>>, <<>>, <<>>) : d \in Destinations}
    \cup {Terminator("Return", <<>>, <<>>, <<>>, <<>>, <<>>)}

\* Functions of one block, one statement and a terminator, with the return
\* place _0 and one more local.
Mirs ==
    {[basic_blocks |-> <<[statements |-> <<[kind |-> k]>>, terminator |-> <<t>>]>>,
      local_decls |-> {0, 1}] :
        k \in StatementKinds, t \in Terminators}

\* load_variable_regions: a HashMap from some of the function's locals to
\* regions; in the maps drawn the return place _0 has no region.
VariableRegionMaps(m) ==
    UNION {[S -> Regions] : S \in SUBSET (m.local_decls \ {0})}

\* Loan-creation relations the fact files may hold.
BorrowRegionInputs(m) ==
    SeqsUpTo(Regions \X LoanIds \X (1..Len(InternAllPoints(m))), MaxBorrows)

OutlivesInputs(m) ==
    SeqsUpTo(Regions \X Regions \X (1..Len(InternAllPoints(m))), MaxOutlives)

\* The facts an add_fake_facts call starts from.
Snapshot == [borrow_region |-> borrow_region, call_magic_wands |-> call_magic_wands]

Init ==
    /\ mir \in Mirs
    /\ interner = InternAllPoints(mir)
    /\ borrow_region \in BorrowRegionInputs(mir)
    /\ outlives \in OutlivesInputs(mir)
    /\ region_live_at = <<>>
    /\ universal_region \in SUBSET Regions
    /\ variable_regions \in VariableRegionMaps(mir)
    /\ call_magic_wands = <<>>
    /\ reference_moves = <<>>
    /\ argument_moves = <<>>
    /\ before = Snapshot
    /\ runs = 0
    /\ graph = <<>>
    /\ borrow_live_at = <<>>
    /\ graph_file = <<<<>>>>
    /\ error = "none"
    /\ pc = "loaded"

\* PoloniusInfo::new calls add_fake_facts on the loaded facts; the call is
\* repeated on the completed facts up to MaxRuns times.
AddFakeFacts ==
    /\ pc \in {"loaded", "completed"}
    /\ runs < MaxRuns
    /\ \E order \in Orders(DOMAIN OutlivesAtPoint(outlives, universal_region)) :
        LET w == add_fake_facts(borrow_region, outlives, universal_region,
                                interner, mir, variable_regions,
                                call_magic_wands, order)
        IN  /\ borrow_region' = w.borrow_region
            /\ call_magic_wands' = w.call_magic_wands
            /\ reference_moves' = w.reference_moves
            /\ argument_moves' = w.argument_moves
            /\ error' = IF w.panicked THEN "panic" ELSE "none"
            /\ pc' = IF w.panicked THEN "panicked" ELSE "completed"
    /\ before' = Snapshot
    /\ runs' = runs + 1
    /\ UNCHANGED <<mir, interner, outlives, region_live_at, universal_region,
                   variable_regions, graph, borrow_live_at, graph_file>>

Next == AddFakeFacts

Spec == Init /\ [][Next]_vars

\* Longest region_live_at relation drawn for a report.
MaxLive == 1

\* Functions with the return place _0 and three more locals: an assignment
\* and a terminator.
ReportMirs ==
    {[basic_blocks |-> <<[statements |-> <<[kind |-> "Assign"]>>,
                          terminator |-> <<t>>]>>,
      local_decls |-> {0, 1, 2, 3}] :
        t \in {Terminator("Call",
                          <<[place |-> [kind |-> "Local", local |-> 1],
                             target |-> 0]>>, <<>>, <<>>, <<>>, <<>>),
               Terminator("Return", <<>>, <<>>, <<>>, <<>>, <<>>)}}

\* Longest vector of loans in a borrow_live_at entry.
MaxLiveLoans == 2
\* Largest number of whole items a failing file takes.
MaxWrites == 1
\* Largest number of whole items in the buffer when it is flushed.
MaxFlush == 2
\* Longest beginning of an item that a failing file takes.
MaxCut == 1

\* Output::compute is not part of the program: its borrow_live_at is any map
\* with at most one entry, a vector of different loans of the facts.
OutputMaps(intern, facts) ==
    {<<>>} \cup
    {point :> loans :
        point \in 1..Len(intern),
        loans \in {v \in SeqsUpTo(LoanIdsIn(facts), MaxLiveLoans) :
                    /\ v # <<>>
                    /\ \A i, j \in 1..Len(v) : i # j => v[i] # v[j]}}

\* The file behind the writer: it takes every write (None), or it takes
\* 0..MaxWrites whole items and a beginning of length 0..MaxCut of the
\* next, and refuses the rest.
Capacities ==
    {<<>>} \cup {<<taken, cut>> : taken \in 0..MaxWrites, cut \in 0..MaxCut}

\* The writes of the buffer to the file while print_info writes: none that
\* matters (the report fits into the buffer, or the file takes them), or
\* one with 1..MaxFlush whole items and a beginning of the next in the
\* buffer.  The lengths of the texts are not part of the items, so where
\* the buffer fills up is open.
Flushes ==
    {<<>>} \cup {<<count, piece>> : count \in 1..MaxFlush,
                                   piece \in 0..(MaxCut + 1)}

\* Facts of a report: at most one outlives tuple, any regions alive at any
\* points, no loan-creation fact from the compiler.
InitReport ==
    /\ mir \in ReportMirs
    /\ interner = InternAllPoints(mir)
    /\ borrow_region = <<>>
    /\ outlives \in {<<>>} \cup {<<<<1, NumRegions, point>>>> :
                                    point \in 1..Len(InternAllPoints(mir))}
    /\ region_live_at \in
        SeqsUpTo(Regions \X (1..Len(InternAllPoints(mir))), MaxLive)
    /\ universal_region = {}
    /\ variable_regions \in VariableRegionMaps(mir)
    /\ call_magic_wands = <<>>
    /\ reference_moves = <<>>
    /\ argument_moves = <<>>
    /\ before = Snapshot
    /\ runs = 0
    /\ graph = <<>>
    /\ borrow_live_at = <<>>
    /\ graph_file = <<<<>>>>
    /\ error = "none"
    /\ pc = "loaded"

\* PoloniusInfo::new, after add_fake_facts: Output::compute on the completed
\* facts.
Compute ==
    /\ pc = "completed"
    /\ borrow_live_at' \in OutputMaps(interner, borrow_region)
    /\ pc' = "solved"
    /\ UNCHANGED <<mir, interner, borrow_region, outlives, region_live_at,
                   universal_region, variable_regions, call_magic_wands,
                   reference_moves, argument_moves, before, runs, graph,
                   graph_file, error>>

\* mir_info_printer.print_info().unwrap() on the PoloniusInfo built, and the
\* drop of the BufWriter when visit_fn returns or unwinds; variable_regions
\* is iterated in some order.  visit_fn panics when print_info panicked or
\* returned Err; it returns normally otherwise, also when the drop could not
\* write the buffer into the file.
PrintInfo ==
    /\ pc = "solved"
    /\ graph_file # <<>>
    /\ \E order \in Orders(DOMAIN variable_regions) :
        \E printed \in {print_info(mir, interner, borrow_region,
                                   region_live_at, borrow_live_at,
                                   variable_regions, order)} :
            \E capacity \in Capacities, flush \in Flushes :
                \E written \in {write_graph(printed, capacity, flush)} :
                    /\ graph' = written.graph
                    /\ graph_file' = <<written.file>>
                    /\ error' = written.error
                    /\ pc' = IF written.error = "none" THEN "done"
                             ELSE "panicked"
    /\ UNCHANGED <<mir, interner, borrow_region, outlives, region_live_at,
                   universal_region, variable_regions, call_magic_wands,
                   reference_moves, argument_moves, before, runs,
                   borrow_live_at>>

NextReport == AddFakeFacts \/ Compute \/ PrintInfo

SpecReport == InitReport /\ [][NextReport]_vars

\* Terminators of every kind, their targets among the function's two blocks.
DumpPlaces == {[kind |-> "Local", local |-> 1], [kind |-> "Projection", local |-> 1]}
DumpDestinations == {<<>>} \cup {<<[place |-> p, target |-> 1]>> : p \in DumpPlaces}
DumpTerminators ==
    {Terminator("Goto", <<>>, <<1>>, <<>>, <<>>, <<>>)}
    \cup {Terminator("SwitchInt", <<>>, targets, <<>>, <<>>, <<>>) :
            targets \in {<<1, 0>>, <<1, 1>>}}
    \cup {Terminator(kind, <<>>, <<>>, <<>>, <<>>, <<>>) :
            kind \in {"Resume", "Abort", "Return", "Unreachable",
                      "GeneratorDrop"}}
    \cup {Terminator("Yield", <<>>, <<1>>, <<>>, <<>>, <<>>)}
    \cup {Terminator(kind, <<>>, <<1>>, unwind, <<>>, <<>>) :
            kind \in {"Drop", "DropAndReplace", "FalseUnwind"},
            unwind \in {<<>>, <<0>>}}
    \cup {Terminator("Call", destination, <<>>, <<>>, cleanup, <<>>) :
            destination \in DumpDestinations, cleanup \in {<<>>, <<0>>}}
    \cup {Terminator("Assert", <<>>, <<1>>, <<>>, cleanup, <<>>) :
            cleanup \in {<<>>, <<0>>}}
    \cup {Terminator("FalseEdges", <<>>, <<1>>, <<>>, <<>>, imaginary_targets) :
            imaginary_targets \in {<<>>, <<0, 1>>}}

\* Functions of two blocks, with the return place _0 and two more locals:
\* bb0 has one or two statements and any terminator, bb1 returns.
DumpMirs ==
    {[basic_blocks |->
        <<[statements |-> statements, terminator |-> <<t>>],
          [statements |-> <<>>,
           terminator |-> <<Terminator("Return", <<>>, <<>>, <<>>, <<>>, <<>>)>>]>>,
      local_decls |-> {0, 1, 2}] :
        statements \in {<<[kind |-> "Assign"]>>,
                        <<[kind |-> "Assign"], [kind |-> "StorageDead"]>>},
        t \in DumpTerminators}

\* The points of block bb0.
EntryBlockPoints(m) == 1..Len(BlockPoints(m, 0))

\* Variable-region maps of a dump: none of the locals has a region, or _1
\* and _2 have each its own, or both the same.
DumpVariableRegions == {<<>>, (1 :> 1) @@ (2 :> NumRegions), (1 :> 1) @@ (2 :> 1)}

\* visit_fn is entered: the fact files and the renumber dump of the function
\* hold the relations, and there is no graph file yet.
InitDump ==
    /\ mir \in DumpMirs
    /\ interner = InternAllPoints(mir)
    /\ borrow_region = <<>>
    /\ outlives \in {<<>>} \cup {<<<<1, NumRegions, point>>>> :
                                    point \in EntryBlockPoints(mir)}
    /\ region_live_at \in
        SeqsUpTo({1} \X EntryBlockPoints(mir), MaxLive)
    /\ universal_region = {}
    /\ variable_regions \in DumpVariableRegions
    /\ call_magic_wands = <<>>
    /\ reference_moves = <<>>
    /\ argument_moves = <<>>
    /\ before = Snapshot
    /\ runs = 0
    /\ graph = <<>>
    /\ borrow_live_at = <<>>
    /\ graph_file = <<>>
    /\ error = "none"
    /\ pc = "start"

\* File::create(graph_path).expect("Unable to create file"): the file is
\* there and empty, or the call fails and visit_fn panics.
CreateGraphFile ==
    /\ pc = "start"
    /\ \/ /\ graph_file' = <<<<>>>>
          /\ error' = "none"
          /\ pc' = "created"
       \/ /\ graph_file' = graph_file
          /\ error' = "create"
          /\ pc' = "panicked"
    /\ UNCHANGED <<mir, interner, borrow_region, outlives, region_live_at,
                   universal_region, variable_regions, call_magic_wands,
                   reference_moves, argument_moves, before, runs, graph,
                   borrow_live_at>>

\* PoloniusInfo::new: load_all_facts and load_variable_regions(..).unwrap(),
\* either of which can fail; then add_fake_facts on the loaded facts and
\* Output::compute on the completed ones.  A failure is a panic of visit_fn,
\* which drops the BufWriter of the file it created.
NewPoloniusInfo ==
    /\ pc = "created"
    /\ \/ /\ error' = "load"
          /\ pc' = "panicked"
          /\ UNCHANGED <<borrow_region, call_magic_wands, reference_moves,
                         argument_moves, before, runs, borrow_live_at>>
       \/ /\ \E order \in Orders(DOMAIN OutlivesAtPoint(outlives, universal_region)) :
                LET w == add_fake_facts(borrow_region, outlives, universal_region,
                                        interner, mir, variable_regions,
                                        call_magic_wands, order)
                IN  /\ borrow_region' = w.borrow_region
                    /\ call_magic_wands' = w.call_magic_wands
                    /\ reference_moves' = w.reference_moves
                    /\ argument_moves' = w.argument_moves
                    /\ error' = IF w.panicked THEN "panic" ELSE "none"
                    /\ pc' = IF w.panicked THEN "panicked" ELSE "solved"
                    /\ borrow_live_at' \in
                        IF w.panicked THEN {borrow_live_at}
                        ELSE OutputMaps(interner, w.borrow_region)
          /\ before' = Snapshot
          /\ runs' = runs + 1
    /\ UNCHANGED <<mir, interner, outlives, region_live_at, universal_region,
                   variable_regions, graph, graph_file>>

NextDump == CreateGraphFile \/ NewPoloniusInfo \/ PrintInfo

SpecDump == InitDump /\ [][NextDump]_vars

---------------------------------------------------------------------------
\* Vocabulary of the properties.

LoanIdsOf(facts) == {facts[i][2] : i \in 1..Len(facts)}

PairwiseDistinctLoans(facts) ==
    \A i, j \in 1..Len(facts) : i # j => facts[i][2] # facts[j][2]

\* The facts the last add_fake_facts call appended, in the order of synthesis.
Added == SubSeq(borrow_region, Len(before.borrow_region) + 1, Len(borrow_region))

\* Those of a relation that are at one point.
FactsAt(facts, point) ==
    SelectSeq(facts, LAMBDA fact : fact[3] = point)

PointIndices == 1..Len(interner)

LocationOf(point) == GetPoint(interner, point).location

\* Number of the facts whose region is r.
CountRegion(facts, r) == Cardinality({i \in 1..Len(facts) : facts[i][1] = r})

\* Number of the region pairs whose first region is r.
CountFirst(pairs, r) == Cardinality({i \in 1..Len(pairs) : pairs[i][1] = r})

\* The first two components of each tuple.
PairsOf(tuples) == [i \in 1..Len(tuples) |-> <<tuples[i][1], tuples[i][2]>>]

\* Every outlives pair at a point, universal or not, in listing order.
AllPairsAt(point) ==
    PairsOf(SelectSeq(outlives, LAMBDA tuple : tuple[3] = point))

\* The outlives pairs at a point with both regions non-universal.
NonUniversalPairsAt(point) ==
    PairsOf(SelectSeq(outlives, LAMBDA tuple :
                /\ tuple[3] = point
                /\ tuple[1] \notin universal_region
                /\ tuple[2] \notin universal_region))

\* Whether some fact of the relation is at the point.
LoanExistsAt(facts, point) == \E i \in 1..Len(facts) : facts[i][3] = point

Completed == pc = "completed"

---------------------------------------------------------------------------
\* C1: after add_fake_facts completes on facts whose loan ids are pairwise
\* distinct, the loan ids of borrow_region, pre-existing and synthesized
\* together, are pairwise distinct.
C1_LoanIdsDistinct ==
    (Completed /\ PairwiseDistinctLoans(before.borrow_region))
        => PairwiseDistinctLoans(borrow_region)

\* C1 witness: a completed first run that kept a pre-existing loan and
\* synthesized at least two more.
C1_Witness ==
    /\ Completed /\ runs = 1
    /\ Len(before.borrow_region) >= 1
    /\ Len(Added) >= 2

\* C2: a run of add_fake_facts on the fact set a completed run produced adds
\* no loan-creation fact, returns empty reference-move and argument-move
\* lists and adds no CallMagicWand entry.
C2_Idempotent ==
    (Completed /\ runs >= 2)
        => /\ borrow_region = before.borrow_region
           /\ reference_moves = <<>>
           /\ argument_moves = <<>>
           /\ call_magic_wands = before.call_magic_wands

\* C2 witness: the second run has completed on facts to which the first run
\* had added a destination loan and further loans.
C2_Witness ==
    /\ Completed /\ runs = 2
    /\ DOMAIN call_magic_wands # {}
    /\ Len(borrow_region) >= 2

\* The points the coverage claim is about: a call terminator with at least
\* one pair of non-universal regions, no loan-creation fact in the input, and
\* a destination local that has a region.
CallWithRegionDestination(point) ==
    /\ is_call(mir, LocationOf(point))
    /\ NonUniversalPairsAt(point) # <<>>
    /\ ~LoanExistsAt(before.borrow_region, point)
    /\ LET place == get_call_destination(mir, LocationOf(point)).place
       IN  /\ place # <<>>
           /\ place[1].kind = "Local"
           /\ place[1].local \in DOMAIN variable_regions

DestinationLocal(point) ==
    get_call_destination(mir, LocationOf(point)).place[1].local

\* What was added at the point is one destination fact, for the region of
\* the destination local and recorded in the CallMagicWand map, and one
\* argument fact per pair of `pairs`, for the pair's first region.
CoversCall(point, pairs) ==
    LET added == FactsAt(Added, point)
    IN  /\ Len(added) = 1 + Len(pairs)
        /\ \E d \in 1..Len(added) :
            LET rest == [i \in 1..(Len(added) - 1) |->
                            IF i < d THEN added[i] ELSE added[i + 1]]
            IN  /\ added[d][1] = variable_regions[DestinationLocal(point)]
                /\ added[d][2] \in DOMAIN call_magic_wands
                /\ call_magic_wands[added[d][2]] = DestinationLocal(point)
                /\ \A i \in 1..Len(rest) :
                    /\ rest[i][2] \in Range(argument_moves)
                    /\ rest[i][2] \notin DOMAIN call_magic_wands
                /\ \A r \in Regions : CountRegion(rest, r) = CountFirst(pairs, r)

AtMostOneDestinationLoan ==
    \A point \in PointIndices :
        Cardinality({i \in 1..Len(Added) :
                        /\ Added[i][3] = point
                        /\ Added[i][2] \in DOMAIN call_magic_wands}) <= 1

\* C3 (as stated): at such a point completion adds exactly one destination
\* fact, recorded in the CallMagicWand map, plus exactly one argument fact
\* for each outlives pair at that point, universal or not, and nothing else;
\* no point receives more than one destination loan.
C3_OneArgumentPerOutlivesPair ==
    (Completed /\ runs = 1)
        => /\ \A point \in PointIndices :
                CallWithRegionDestination(point)
                    => CoversCall(point, AllPairsAt(point))
           /\ AtMostOneDestinationLoan

\* C3 (amended): at such a point completion adds exactly one destination
\* fact, recorded in the CallMagicWand map, plus exactly one argument fact
\* for each outlives pair at that point whose two regions are both
\* non-universal, and nothing else; no point receives more than one
\* destination loan.
C3_OneArgumentPerNonUniversalPair ==
    (Completed /\ runs = 1)
        => /\ \A point \in PointIndices :
                CallWithRegionDestination(point)
                    => CoversCall(point, NonUniversalPairsAt(point))
           /\ AtMostOneDestinationLoan

\* C3 witness: a completed run over a call with a region destination that
\* has a pair of non-universal regions and a pair with a universal region.
C3_Witness ==
    /\ Completed /\ runs = 1
    /\ \E point \in PointIndices :
        /\ CallWithRegionDestination(point)
        /\ Len(AllPairsAt(point)) = 2
        /\ Len(NonUniversalPairsAt(point)) = 1

\* C4: a point that has a loan-creation fact in the input receives no new
\* loan-creation fact, whatever outlives pairs exist at it.
C4_NonInterference ==
    Completed
        => \A point \in PointIndices :
            LoanExistsAt(before.borrow_region, point) => FactsAt(Added, point) = <<>>

\* C4 witness: a completed first run over a call or an assignment that had a
\* loan-creation fact and a pair of non-universal regions.
C4_Witness ==
    /\ Completed /\ runs = 1
    /\ \E point \in PointIndices :
        /\ LoanExistsAt(before.borrow_region, point)
        /\ NonUniversalPairsAt(point) # <<>>
        /\ \/ is_call(mir, LocationOf(point))
           \/ is_assignment(mir, LocationOf(point))

\* The regions of the reference-move loans a run synthesized at a point.
ReferenceMoveRegions(facts, moves, point) ==
    {facts[i][1] : i \in {j \in 1..Len(facts) :
                            facts[j][3] = point /\ facts[j][2] \in Range(moves)}}

\* C5: the pair selected at an assignment point is a function of the set of
\* pairs at the point: a run on the same outlives tuples listed in another
\* order synthesizes the reference-move loan for the same region.
C5_SelectionIgnoresListingOrder ==
    (Completed /\ runs = 1)
        => \A listing \in Rearrangements(outlives) :
            \A order \in Orders(DOMAIN OutlivesAtPoint(listing, universal_region)) :
                LET other == add_fake_facts(before.borrow_region, listing,
                                universal_region, interner, mir,
                                variable_regions, before.call_magic_wands, order)
                IN  \A point \in PointIndices :
                        ReferenceMoveRegions(other.borrow_region,
                                             other.reference_moves, point)
                        = ReferenceMoveRegions(borrow_region, reference_moves, point)

\* C6: a completed add_fake_facts keeps every loan-creation fact it found,
\* unchanged and in place, and leaves the outlives, region-live-at and
\* universal-region relations, the interner and the variable-region map as
\* they were.
C6_OnlyAddsTuples ==
    [][(runs' = runs + 1 /\ pc' = "completed")
        => /\ Len(borrow_region') >= Len(borrow_region)
           /\ SubSeq(borrow_region', 1, Len(borrow_region)) = borrow_region
           /\ outlives' = outlives
           /\ region_live_at' = region_live_at
           /\ universal_region' = universal_region
           /\ interner' = interner
           /\ variable_regions' = variable_regions]_vars

\* C6 witness: a completed first run that found a loan-creation fact and
\* added another.
C6_Witness ==
    /\ Completed /\ runs = 1
    /\ before.borrow_region # <<>>
    /\ Len(borrow_region) > Len(before.borrow_region)

\* C7 (as stated): no loan-creation fact synthesized by add_fake_facts
\* (destination, argument or reference-move loan) has a universal region.
C7_NoUniversalSynthesized ==
    Completed => \A i \in 1..Len(Added) : Added[i][1] \notin universal_region

\* C7 (amended): no argument loan and no reference-move loan synthesized by
\* add_fake_facts has a universal region; a destination loan has the region
\* the variable-region map gives the call's destination local, universal or
\* not.
C7_NoUniversalArgumentOrMove ==
    Completed
        => \A i \in 1..Len(Added) :
            IF Added[i][2] \in Range(argument_moves) \cup Range(reference_moves)
            THEN Added[i][1] \notin universal_region
            ELSE /\ Added[i][2] \in DOMAIN call_magic_wands
                 /\ Added[i][1] = variable_regions[call_magic_wands[Added[i][2]]]

\* C7 witness: a completed run that synthesized a destination loan for a
\* universal region and an argument loan, at a call that also had an
\* outlives pair with a universal region.
C7_Witness ==
    /\ Completed /\ runs = 1
    /\ \E i, j \in 1..Len(Added) :
        /\ Added[i][2] \in DOMAIN call_magic_wands
        /\ Added[i][1] \in universal_region
        /\ Added[j][2] \in Range(argument_moves)
        /\ Len(AllPairsAt(Added[j][3])) > Len(NonUniversalPairsAt(Added[j][3]))

\* The id after the largest loan id of the facts; no id is used when there
\* are no facts, and the next unused id is then 0.
NextUnusedLoanId(facts) ==
    IF facts = <<>> THEN 0
    ELSE (CHOOSE id \in LoanIdsOf(facts) : \A other \in LoanIdsOf(facts) : other <= id) + 1

\* C8 (as stated): the k synthesized loans have the k consecutive ids that
\* follow the largest loan id of the input, in order of synthesis, none
\* skipped, also when the input has no loan-creation fact.
C8_NextUnusedIds ==
    Completed
        => \A i \in 1..Len(Added) :
            Added[i][2] = NextUnusedLoanId(before.borrow_region) + (i - 1)

\* C8 (amended): the k synthesized loans have the k consecutive ids that
\* follow the largest loan id of the input, in order of synthesis; when the
\* input has no loan-creation fact they follow 0, so the first id is 1 and
\* id 0 is skipped.
C8_ConsecutiveIdsAfterMaximum ==
    Completed
        => \A i \in 1..Len(Added) :
            Added[i][2] =
                (CHOOSE id \in LoanIdsOf(before.borrow_region) \cup {0} :
                    \A other \in LoanIdsOf(before.borrow_region) : other <= id) + i

\* C8 witness: a completed run that synthesized at least two loans on an
\* input without loan-creation facts.
C8_Witness ==
    /\ Completed /\ runs = 1
    /\ before.borrow_region = <<>>
    /\ Len(Added) >= 2

\* The locals the variable-region map gives the region.
Holders(region) == {local \in DOMAIN variable_regions : variable_regions[local] = region}

\* Regions that two different locals map to.
DuplicatedRegions == {region \in Regions : Cardinality(Holders(region)) >= 2}

\* Whether region_live_at has the region at one of the points.
LiveAtSome(region, points) ==
    \E i \in 1..Len(region_live_at) :
        region_live_at[i][1] = region /\ region_live_at[i][2] \in points

\* C9: whenever the variable-region map assigns one region to
\* two different locals, producing the report ends in a fatal failure and
\* never completes normally, whichever regions are live at whichever points.
C9_DuplicateAlwaysFatal ==
    pc = "done" => DuplicatedRegions = {}

\* What the claim says find_variable answers for a region.
FindVariableAnswers(region, answer) ==
    IF Cardinality(Holders(region)) >= 2 THEN answer.panic
    ELSE /\ ~answer.panic
         /\ answer.local = IF Holders(region) = {} THEN <<>>
                           ELSE <<CHOOSE local \in Holders(region) : TRUE>>

\* C10: find_variable(region) fails its assertion when two or more locals
\* map to the region; otherwise it returns the one local that maps to it, or
\* None when no local does; in every iteration order of the map.  So every
\* owner a written row shows is the one local of its region.
C10_FindVariable ==
    /\ \A region \in Regions :
        \A order \in Orders(DOMAIN variable_regions) :
            FindVariableAnswers(region, find_variable(variable_regions, region, order))
    /\ \A i \in 1..Len(rows) :
        \A cell \in {rows[i].regions_start, rows[i].regions_mid} :
            \A j \in 1..Len(cell) :
                FindVariableAnswers(cell[j][1], [panic |-> FALSE, local |-> cell[j][2]])

\* C10 witness: a finished report that shows the owner of a live region,
\* in a function where another region has two locals.
C10_Witness ==
    /\ pc = "done"
    /\ DuplicatedRegions # {}
    /\ \E i \in 1..Len(rows) :
        \E j \in 1..Len(rows[i].regions_start) :
            rows[i].regions_start[j][2] # <<>>

---------------------------------------------------------------------------
\* Vocabulary of the properties about the graph file.

\* What print_info has written.
Written == graph

\* What the graph file holds; nothing when there is no file.
FileHolds == IF graph_file = <<>> THEN <<>> ELSE graph_file[1]

\* The index of the location's point of the type.
PointOf(location, typ) ==
    CHOOSE point \in PointIndices : interner[point] = Point(location, typ)

\* Number of tuples of the relation whose last component is the point.
CountAt(relation, point) ==
    Cardinality({i \in 1..Len(relation) : relation[i][Len(relation[i])] = point})

\* The locations of the function, block by block.
Locations ==
    UNION {{Location(b - 1, i) : i \in 0..Len(mir.basic_blocks[b].statements)} :
            b \in 1..Len(mir.basic_blocks)}

TerminatorKindOf(bb) == mir.basic_blocks[bb + 1].terminator[1].kind

IsStatement(location) ==
    location.statement_index < Len(mir.basic_blocks[location.block + 1].statements)

\* print_info began and panicked.
PrintPanicked == pc = "panicked" /\ error = "panic" /\ Written # <<>>

\* The panic of print_info has a cause that is no missing data: it left the
\* row of a statement at which a region of two locals is live, or it came
\* after a block's table, from a terminator print_info does not support.
PanicExplained ==
    LET last == Written[Len(Written)]
    IN  \/ /\ last.item = "fragment"
           /\ IsStatement(last.location)
           /\ \E region \in DuplicatedRegions :
                LiveAtSome(region, {PointOf(last.location, "Start"),
                                    PointOf(last.location, "Mid")})
        \/ /\ last.item = "end_node"
           /\ TerminatorKindOf(last.block) \in {"Yield", "GeneratorDrop"}

\* A cell of the row is empty when there is nothing to show at its point.
EmptyWhereMissing(row) ==
    LET start == PointOf(row.location, "Start")
        mid == PointOf(row.location, "Mid")
    IN  /\ start \notin DOMAIN borrow_live_at => row.loans_start = <<>>
        /\ mid \notin DOMAIN borrow_live_at => row.loans_mid = <<>>
        /\ CountAt(borrow_region, start) = 0 => row.borrow_regions_start = <<>>
        /\ CountAt(borrow_region, mid) = 0 => row.borrow_regions_mid = <<>>
        /\ CountAt(region_live_at, start) = 0 => row.regions_start = <<>>
        /\ CountAt(region_live_at, mid) = 0 => row.regions_mid = <<>>

\* C11: missing data is not an error.  A row's cell is empty when its point
\* is absent from borrow_live_at, or has no loan-creation fact, or no
\* region-live-at fact; a report that ends normally has a row for every
\* location, and a panic of print_info always has another cause.
C11_MissingDataRendersEmpty ==
    /\ \A i \in 1..Len(rows) : EmptyWhereMissing(rows[i])
    /\ pc = "done" => {rows[i].location : i \in 1..Len(rows)} = Locations
    /\ PrintPanicked => PanicExplained

\* C11 witness: a finished report with a statement whose Start point is
\* absent from a borrow_live_at that has its Mid point, and with a row all of
\* whose cells are empty.
C11_Witness ==
    /\ pc = "done"
    /\ \E i \in 1..Len(rows) :
        /\ rows[i].kind = "statement"
        /\ rows[i].loans_start = <<>>
        /\ rows[i].loans_mid # <<>>
    /\ \E i \in 1..Len(rows) :
        /\ rows[i].kind = "statement"
        /\ rows[i].loans_start = <<>> /\ rows[i].loans_mid = <<>>
        /\ rows[i].borrow_regions_start = <<>> /\ rows[i].borrow_regions_mid = <<>>
        /\ rows[i].regions_start = <<>> /\ rows[i].regions_mid = <<>>

\* The loans borrow_live_at has at the point.
LiveLoansAt(point) ==
    IF point \in DOMAIN borrow_live_at
    THEN {borrow_live_at[point][i] : i \in 1..Len(borrow_live_at[point])}
    ELSE {}

\* The (region, loan) of the loan-creation facts at exactly the point.
CreatedAt(point) ==
    {<<borrow_region[i][1], borrow_region[i][2]>> :
        i \in {j \in 1..Len(borrow_region) : borrow_region[j][3] = point}}

\* The regions alive at the point, each with the local that owns it.
LiveRegionsAt(point) ==
    {<<region_live_at[i][1],
       IF Holders(region_live_at[i][1]) = {} THEN <<>>
       ELSE <<CHOOSE local \in Holders(region_live_at[i][1]) : TRUE>> >> :
        i \in {j \in 1..Len(region_live_at) : region_live_at[j][2] = point}}

\* The elements of a cell.
CellSet(cell) == {cell[i] : i \in 1..Len(cell)}

\* The row shows, at Start and at Mid, the live loans, the loan-creation
\* facts and the live regions of its location.
FullRecord(row) ==
    LET start == PointOf(row.location, "Start")
        mid == PointOf(row.location, "Mid")
    IN  /\ CellSet(row.loans_start) = LiveLoansAt(start)
        /\ CellSet(row.loans_mid) = LiveLoansAt(mid)
        /\ CellSet(row.borrow_regions_start) = CreatedAt(start)
        /\ CellSet(row.borrow_regions_mid) = CreatedAt(mid)
        /\ CellSet(row.regions_start) = LiveRegionsAt(start)
        /\ CellSet(row.regions_mid) = LiveRegionsAt(mid)

\* C12: the record of every statement location and of every terminator
\* location holds the live-loan sets at Start and at Mid, the (region, loan)
\* of the loan-creation facts at exactly its Start and its Mid point, and the
\* regions live at Start and at Mid with their owners.
C12_FullRecordAtEveryLocation ==
    \A i \in 1..Len(rows) : FullRecord(rows[i])

\* The terminator of a block.
TerminatorOf(bb) == mir.basic_blocks[bb + 1].terminator[1]

\* The edges written from a block to blocks, as (target block, style).
BlockEdgesFrom(bb) ==
    LET edges == SelectSeq(Written, LAMBDA written :
                    /\ written.item = "edge"
                    /\ written.source = bb
                    /\ Len(written.target) = 2)
    IN  [i \in 1..Len(edges) |-> <<edges[i].target[2], edges[i].style>>]

\* The successors of a terminator that are ordinary targets.
OrdinaryTargets(t) ==
    t.targets \o [i \in 1..Len(t.destination) |-> t.destination[i].target]

\* One (target, style) per target.
Styled(targets, style) == [i \in 1..Len(targets) |-> <<targets[i], style>>]

\* Number of occurrences in a sequence.
Occurrences(seq, x) == Cardinality({i \in 1..Len(seq) : seq[i] = x})

\* Two sequences hold the same elements the same number of times.
SameBag(a, b) ==
    /\ Len(a) = Len(b)
    /\ \A i \in 1..Len(a) : Occurrences(a, a[i]) = Occurrences(b, a[i])

\* The table of the block was written, and print_info saw no write fail.
TableWritten(bb) ==
    /\ pc \in {"done", "panicked"}
    /\ error \in {"none", "panic"}
    /\ \E i \in 1..Len(Written) :
        Written[i].item = "end_node" /\ Written[i].block = bb

Blocks == 0..(Len(mir.basic_blocks) - 1)

\* C13: for every terminator exactly one edge is written per
\* successor block, from the terminator's block: plain to an ordinary target,
\* unwind to an unwind or cleanup successor, imaginary to an imaginary target
\* of a false edge; no edge to a block without a successor block.
C13_EdgePerSuccessor ==
    \A bb \in Blocks :
        TableWritten(bb)
            => SameBag(BlockEdgesFrom(bb),
                       Styled(OrdinaryTargets(TerminatorOf(bb)), "plain")
                        \o Styled(TerminatorOf(bb).unwind, "unwind")
                        \o Styled(TerminatorOf(bb).cleanup, "unwind")
                        \o Styled(TerminatorOf(bb).imaginary_targets, "imaginary"))

\* visit_fn has ended, normally or in a panic.
Ended == pc \in {"done", "panicked"}

\* The file holds a whole report: everything up to the closing of the graph.
WholeReport ==
    /\ FileHolds # <<>>
    /\ FileHolds[1].item = "digraph"
    /\ FileHolds[Len(FileHolds)].item = "close"

\* C14: a report is all-or-nothing.  When producing the report has failed at
\* any step no file is left at the function's output path; a file exists
\* only when the whole report, up to the closing of the graph, was written.
C14_AllOrNothing ==
    Ended => IF pc = "done" THEN graph_file # <<>> /\ WholeReport
             ELSE graph_file = <<>>

\* Some point of the function was never interned.
UnresolvedPoint ==
    \E location \in Locations, t \in 1..Len(PointTypes) :
        \A point \in PointIndices :
            interner[point] # Point(location, PointTypes[t])

\* C15: completion plus rendering fails only on an output I/O error or on a
\* consistency violation (a region of two locals, an unresolved point); with
\* empty fact relations it never fails, whatever the CFG.
C15_FailsOnlyOnIoOrInconsistency ==
    /\ (pc = "panicked" /\ error = "panic")
            => (DuplicatedRegions # {} \/ UnresolvedPoint)
    /\ (pc = "panicked" /\ error = "panic"
            /\ outlives = <<>> /\ region_live_at = <<>> /\ before.borrow_region = <<>>)
            => FALSE

\* The end-to-end scenario: bb0 is one assignment followed by goto bb1, bb1
\* returns, the only outlives fact is at the Mid point of the assignment and
\* has no universal region, and the input has no loan-creation fact.
Scenario ==
    /\ Len(mir.basic_blocks) = 2
    /\ mir.basic_blocks[1].statements = <<[kind |-> "Assign"]>>
    /\ TerminatorOf(0).kind = "Goto" /\ TerminatorOf(0).targets = <<1>>
    /\ mir.basic_blocks[2].statements = <<>>
    /\ TerminatorOf(1).kind = "Return"
    /\ Len(outlives) = 1
    /\ outlives[1][3] = PointOf(Location(0, 0), "Mid")
    /\ outlives[1][1] \notin universal_region
    /\ outlives[1][2] \notin universal_region
    /\ before.borrow_region = <<>>

\* The borrow-region entries a row shows.
BorrowEntries(row) == row.borrow_regions_start \o row.borrow_regions_mid

\* Every edge written, as (source, target node, style).
EdgesWritten ==
    LET edges == SelectSeq(Written, LAMBDA written : written.item = "edge")
    IN  [i \in 1..Len(edges) |->
            <<edges[i].source, edges[i].target, edges[i].style>>]

\* C16: in the end-to-end scenario the report shows exactly one
\* borrow-region entry, that of the synthesized loan for the second region of
\* the outlives pair, on the row of bb0's assignment and none on any other
\* row, exactly one plain edge bb0 -> bb1 and exactly one plain edge
\* bb1 -> return, and no other edge.
C16_EndToEnd ==
    (pc = "done" /\ Scenario)
        => /\ \A i \in 1..Len(rows) :
                IF rows[i].location = Location(0, 0)
                THEN /\ Len(BorrowEntries(rows[i])) = 1
                     /\ BorrowEntries(rows[i])[1][1] = outlives[1][2]
                     /\ BorrowEntries(rows[i])[1][2] \in Range(reference_moves)
                     /\ BorrowEntries(rows[i])[1][2] \notin LoanIdsOf(before.borrow_region)
                ELSE BorrowEntries(rows[i]) = <<>>
           /\ \E i \in 1..Len(rows) : rows[i].location = Location(0, 0)
           /\ SameBag(EdgesWritten,
                      << <<0, <<"bb", 1>>, "plain">>, <<1, <<"return">>, "plain">> >>)

\* C16 witness: the report of the scenario is finished and in the file.
C16_Witness ==
    pc = "done" /\ Scenario /\ Len(rows) = 3 /\ FileHolds = Written

\* The block an item of the graph belongs to: that of a table, of a row, or
\* the source of an edge.
InBlock(written) ==
    written.item \in {"node", "end_node", "row", "fragment", "edge"}
BlockOfItem(written) ==
    CASE written.item \in {"node", "end_node"} -> written.block
      [] written.item \in {"row", "fragment"} -> written.location.block
      [] written.item = "edge" -> written.source

\* The positions of the rows of a block in what was written.
RowPositions(bb) ==
    {i \in 1..Len(Written) :
        Written[i].item = "row" /\ Written[i].location.block = bb}

StatementCount(bb) == Len(mir.basic_blocks[bb + 1].statements)

\* C17: the renderer makes a single walk.  Nothing of a later block is
\* written before a row or an edge of an earlier block; the rows of a block
\* are in increasing statement index, those of the statements first and
\* that of the terminator last, and the edges of the block come after its
\* rows; a finished report has exactly n + 1 rows for a block of n
\* statements, one per location.
C17_SingleWalk ==
    /\ \A i, j \in 1..Len(Written) :
        (i < j /\ InBlock(Written[i]) /\ InBlock(Written[j]))
            => BlockOfItem(Written[i]) <= BlockOfItem(Written[j])
    /\ \A bb \in Blocks :
        /\ \A i, j \in RowPositions(bb) :
            i < j => Written[i].location.statement_index
                        < Written[j].location.statement_index
        /\ \A i \in RowPositions(bb) :
            /\ Written[i].location.statement_index <= StatementCount(bb)
            /\ Written[i].kind = "terminator"
                <=> Written[i].location.statement_index = StatementCount(bb)
        /\ \A i \in RowPositions(bb), j \in 1..Len(Written) :
            (Written[j].item = "edge" /\ Written[j].source = bb) => i < j
        /\ pc = "done" => Cardinality(RowPositions(bb)) = StatementCount(bb) + 1

\* C17 witness: a finished report of a function whose first block has two
\* statements and two edges, and whose second block has none.
C17_Witness ==
    /\ pc = "done"
    /\ FileHolds = Written
    /\ StatementCount(0) = 2
    /\ StatementCount(1) = 0
    /\ Len(BlockEdgesFrom(0)) = 2
    /\ Cardinality(RowPositions(0)) = 3
    /\ Cardinality(RowPositions(1)) = 1

---------------------------------------------------------------------------
\* Vocabulary of the properties about single points of the completion.

\* The point is of a statement that is an assignment.
IsAssignmentPoint(point) ==
    /\ IsStatement(LocationOf(point))
    /\ mir.basic_blocks[LocationOf(point).block + 1]
          .statements[LocationOf(point).statement_index + 1].kind = "Assign"

\* The point is of a terminator that is a call.
IsCallPoint(point) ==
    /\ ~IsStatement(LocationOf(point))
    /\ TerminatorKindOf(LocationOf(point).block) = "Call"

\* C18: at an assignment point with k >= 1 pairs of non-universal regions
\* and no loan-creation fact, completion adds exactly one fact, for the second
\* region of one of the point's pairs, and returns its loan as a reference
\* move, whatever k is; at a point that is neither of a call terminator nor of
\* an assignment statement, and at a point without a pair of non-universal
\* regions, it adds nothing.
C18_OneMovePerAssignment ==
    (Completed /\ runs = 1)
        => \A point \in PointIndices :
            LET added == FactsAt(Added, point)
                pairs == NonUniversalPairsAt(point)
            IN  /\ (/\ IsAssignmentPoint(point)
                    /\ pairs # <<>>
                    /\ ~LoanExistsAt(before.borrow_region, point))
                        => /\ Len(added) = 1
                           /\ \E i \in 1..Len(pairs) : added[1][1] = pairs[i][2]
                           /\ added[1][2] \in Range(reference_moves)
                           /\ added[1][2] \notin Range(argument_moves)
                /\ (~IsAssignmentPoint(point) /\ ~IsCallPoint(point))
                        => added = <<>>
                /\ pairs = <<>> => added = <<>>

\* C18 witness: a completed run over an assignment point that had two pairs
\* of non-universal regions and no loan-creation fact, in a function whose
\* terminator is no call.
C18_Witness ==
    /\ Completed /\ runs = 1
    /\ \E point \in PointIndices :
        /\ IsAssignmentPoint(point)
        /\ Len(NonUniversalPairsAt(point)) = 2
        /\ ~LoanExistsAt(before.borrow_region, point)
        /\ Len(FactsAt(Added, point)) = 1

\* The points that have a pair of non-universal regions: the keys of the
\* outlives grouping.
GroupedPoints == {point \in PointIndices : NonUniversalPairsAt(point) # <<>>}

\* The (region, point) of the facts a run added to the facts it began with.
RegionPointsAdded(facts) ==
    [i \in 1..(Len(facts) - Len(before.borrow_region)) |->
        <<facts[Len(before.borrow_region) + i][1],
          facts[Len(before.borrow_region) + i][3]>>]

\* C19: completion at one point is independent of completion at the other
\* points: whatever the order in which the points of the outlives grouping
\* are processed, the run adds the same (region, point) pairs the same number
\* of times and consumes the same number of loan ids.
C19_PointOrderIndependent ==
    (Completed /\ runs = 1)
        => \A order, another \in Orders(GroupedPoints) :
            LET one == add_fake_facts(before.borrow_region, outlives,
                            universal_region, interner, mir, variable_regions,
                            before.call_magic_wands, order)
                other == add_fake_facts(before.borrow_region, outlives,
                            universal_region, interner, mir, variable_regions,
                            before.call_magic_wands, another)
            IN  /\ ~one.panicked
                /\ SameBag(RegionPointsAdded(one.borrow_region),
                           RegionPointsAdded(borrow_region))
                /\ one.last_loan_id = other.last_loan_id

\* C19 witness: a completed run that synthesized loans at two different
\* points.
C19_Witness ==
    /\ Completed /\ runs = 1
    /\ Cardinality(GroupedPoints) = 2
    /\ \E i, j \in 1..Len(Added) : Added[i][3] # Added[j][3]

===========================================================================
